---- MODULE Spec2Model ----
(***************************************************************************)
(* bin/check_samplesheet.py: the samplesheet validator and reformatter.    *)
(*                                                                         *)
(* One run of check_samplesheet(file_in, file_out) is modelled as a        *)
(* sequential process: the table read by pd.read_csv, then the checks of   *)
(* lines 71-118 in program order, then the output preparation of lines     *)
(* 123-147 and the two writes of lines 144 and 150.  A run ends either by  *)
(* returning (exit code 0), by print_error (message on stdout,             *)
(* sys.exit(1)) or by an uncaught exception (traceback on stderr, exit     *)
(* code 1).                                                                *)
(***************************************************************************)
EXTENDS Integers, Sequences, FiniteSets

VARIABLES
    file_in,        \* the samplesheet as read: [columns, rows]; never changes
    columns,        \* design.columns: the column names, in file order
    design,         \* the rows of the DataFrame: Seq of [column -> cell]
    pc,             \* the statement of check_samplesheet about to run
    stdout,         \* what print_error printed: <<>> or <<error line, context line>>
    stderr,         \* the uncaught exception, or NoException
    exitCode,       \* Running, 0 or 1
    exitedAt,       \* the pc value at which the run stopped ("" while running)
    metadata,       \* the metadata frame of lines 142-143 (<<>> before)
    files           \* the files written so far: file name -> [columns, rows]

vars == <<file_in, columns, design, pc, stdout, stderr, exitCode, exitedAt, metadata, files>>

(***************************************************************************)
(* Bounds of the model.                                                    *)
(***************************************************************************)
\* The largest number of data rows of an input samplesheet.
MaxRows == 2

(***************************************************************************)
(* Cells.  pd.read_csv gives every empty field the missing value NaN; any  *)
(* other field of the sheets drawn here is a non-empty str.                *)
(***************************************************************************)
NaN == "NaN"

isna(v) == v = NaN

notnull(v) == v # NaN

\* The characters of each str the model draws (a TLA+ string cannot be indexed).
Chars(s) ==
    CASE s = "s1"             -> <<"s", "1">>
      [] s = "s2"             -> <<"s", "2">>
      [] s = "1abc"           -> <<"1", "a", "b", "c">>
      [] s = "g1"             -> <<"g", "1">>
      [] s = "g2"             -> <<"g", "2">>
      [] s = "ccs"            -> <<"c", "c", "s">>
      [] s = "r1"             -> <<"r", "1">>
      [] s = "r2"             -> <<"r", "2">>
      [] s = "a.fq.gz"        -> <<"a", ".", "f", "q", ".", "g", "z">>
      [] s = "b.fastq.gz"     -> <<"b", ".", "f", "a", "s", "t", "q", ".", "g", "z">>
      [] s = "a.txt"          -> <<"a", ".", "t", "x", "t">>
      [] s = "c.fq.gz"        -> <<"c", ".", "f", "q", ".", "g", "z">>
      [] s = "d.fastq.gz"     -> <<"d", ".", "f", "a", "s", "t", "q", ".", "g", "z">>
      [] s = "foo_R1"         -> <<"f", "o", "o", "_", "R", "1">>
      [] s = "foo_R2"         -> <<"f", "o", "o", "_", "R", "2">>
      [] s = "foo_"           -> <<"f", "o", "o", "_">>
      [] s = "foo_val"        -> <<"f", "o", "o", "_", "v", "a", "l">>
      [] s = "foo_mqc"        -> <<"f", "o", "o", "_", "m", "q", "c">>
      [] s = "foo_trimmed"    -> <<"f", "o", "o", "_", "t", "r", "i", "m", "m", "e", "d">>
      [] s = "foo_summary"    -> <<"f", "o", "o", "_", "s", "u", "m", "m", "a", "r", "y">>
      [] s = "foo_matrix"     -> <<"f", "o", "o", "_", "m", "a", "t", "r", "i", "x">>
      [] s = "foo_R1x"        -> <<"f", "o", "o", "_", "R", "1", "x">>
      [] s = "Aligned"        -> <<"A", "l", "i", "g", "n", "e", "d">>
      [] s = "short_summary_" -> <<"s", "h", "o", "r", "t", "_", "s", "u", "m", "m", "a", "r", "y", "_">>
      [] s = "a b"            -> <<"a", " ", "b">>

\* str order (code point order) of the labels above, as sorted() and groupby use it.
SortedLabels == <<"1abc", "Aligned", "a b", "ccs", "foo_", "foo_R1", "foo_R1x", "foo_R2",
                  "foo_matrix", "foo_mqc", "foo_summary", "foo_trimmed", "foo_val",
                  "g1", "g2", "r1", "r2", "s1", "s2", "short_summary_">>

Rank(s) == CHOOSE i \in DOMAIN SortedLabels : SortedLabels[i] = s

Lower == {"a", "b", "c", "d", "e", "f", "g", "h", "i", "j", "k", "l", "m",
          "n", "o", "p", "q", "r", "s", "t", "u", "v", "w", "x", "y", "z"}

Upper == {"A", "B", "C", "D", "E", "F", "G", "H", "I", "J", "K", "L", "M",
          "N", "O", "P", "Q", "R", "S", "T", "U", "V", "W", "X", "Y", "Z"}

Digit == {"0", "1", "2", "3", "4", "5", "6", "7", "8", "9"}

\* cs starts with lit
StartsWith(cs, lit) ==
    /\ Len(lit) <= Len(cs)
    /\ \A i \in 1..Len(lit) : cs[i] = lit[i]

\* str.endswith(suffix)
EndsWith(cs, lit) ==
    /\ Len(lit) <= Len(cs)
    /\ \A i \in 1..Len(lit) : cs[Len(cs) - Len(lit) + i] = lit[i]

(***************************************************************************)
(* match_legal_pattern, lines 27-41.                                       *)
(***************************************************************************)
\* re.match(r"^[a-zA-Z][a-zA-Z0-9_]*$", label)
MatchesLegalPattern(cs) ==
    /\ Len(cs) >= 1
    /\ cs[1] \in Lower \cup Upper
    /\ \A i \in 2..Len(cs) : cs[i] \in Lower \cup Upper \cup Digit \cup {"_"}

\* illegal_patterns, in list order: the literal text of each pattern and
\* whether it carries a leading ^ or a trailing $.
illegal_patterns == <<
    [lit |-> <<"_", "t", "o", "p", "h", "a", "t">>, caret |-> FALSE, dollar |-> FALSE],
    [lit |-> <<"R", "e", "a", "d", "s", "P", "e", "r", "G", "e", "n", "e">>, caret |-> FALSE, dollar |-> FALSE],
    [lit |-> <<"_", "s", "t", "a", "r", "_", "a", "l", "i", "g", "n", "e", "d">>, caret |-> FALSE, dollar |-> FALSE],
    [lit |-> <<"_", "f", "a", "s", "t", "q", "c">>, caret |-> FALSE, dollar |-> FALSE],
    [lit |-> <<"_", "c", "o", "u", "n", "t", "s">>, caret |-> FALSE, dollar |-> FALSE],
    [lit |-> <<"A", "l", "i", "g", "n", "e", "d">>, caret |-> FALSE, dollar |-> FALSE],
    [lit |-> <<"_", "s", "l", "a", "m", "d", "u", "n", "k">>, caret |-> FALSE, dollar |-> FALSE],
    [lit |-> <<"_", "b", "i", "s", "m", "a", "r", "k">>, caret |-> FALSE, dollar |-> FALSE],
    [lit |-> <<"_", "S", "u", "m", "m", "a", "r", "y", "S", "t", "a", "t", "i", "s", "t", "i", "c", "s">>, caret |-> FALSE, dollar |-> FALSE],
    [lit |-> <<"_", "d", "u", "p", "r", "a", "t", "e">>, caret |-> FALSE, dollar |-> FALSE],
    [lit |-> <<"_", "v", "e", "p">>, caret |-> FALSE, dollar |-> FALSE],
    [lit |-> <<"c", "c", "s">>, caret |-> FALSE, dollar |-> FALSE],
    [lit |-> <<"_", "N", "a", "n", "o", "S", "t", "a", "t", "s">>, caret |-> FALSE, dollar |-> FALSE],
    [lit |-> <<"_", "t", "r", "i", "m", "m", "e", "d">>, caret |-> FALSE, dollar |-> TRUE],
    [lit |-> <<"_", "v", "a", "l">>, caret |-> FALSE, dollar |-> TRUE],
    [lit |-> <<"_", "m", "q", "c">>, caret |-> FALSE, dollar |-> TRUE],
    [lit |-> <<"s", "h", "o", "r", "t", "_", "s", "u", "m", "m", "a", "r", "y", "_">>, caret |-> FALSE, dollar |-> TRUE],
    [lit |-> <<"s", "h", "o", "r", "t", "_", "s", "u", "m", "m", "a", "r", "y", "_">>, caret |-> TRUE, dollar |-> FALSE],
    [lit |-> <<"_", "s", "u", "m", "m", "a", "r", "y">>, caret |-> FALSE, dollar |-> TRUE],
    [lit |-> <<"_", "m", "a", "t", "r", "i", "x">>, caret |-> FALSE, dollar |-> TRUE],
    [lit |-> <<"_">>, caret |-> FALSE, dollar |-> TRUE],
    [lit |-> <<"_", "R", "1">>, caret |-> FALSE, dollar |-> TRUE],
    [lit |-> <<"_", "R", "2">>, caret |-> FALSE, dollar |-> TRUE] >>

\* re.match(p, label): the pattern must match at the start of the label.
re_match(p, cs) ==
    /\ StartsWith(cs, p.lit)
    /\ p.dollar => Len(cs) = Len(p.lit)

\* The outcome of a call or of a check.
Ok == [kind |-> "ok"]

\* print_error(error, context, context_str), lines 18-25: the two printed
\* lines (context_str is the list of the strings joined by ","), then sys.exit(1).
print_error(error, context, context_str) ==
    [kind |-> "print_error", error |-> error, context |-> context,
     context_str |-> context_str]

\* An uncaught exception.
Raise(exc, msg) == [kind |-> "raise", exc |-> exc, msg |-> msg]

\* The first reserved pattern the loop of lines 37-40 finds matching (0: none).
FirstIllegal(cs) ==
    IF \E j \in DOMAIN illegal_patterns : re_match(illegal_patterns[j], cs)
    THEN CHOOSE j \in DOMAIN illegal_patterns :
            /\ re_match(illegal_patterns[j], cs)
            /\ \A h \in 1..(j - 1) : ~re_match(illegal_patterns[h], cs)
    ELSE 0

match_legal_pattern(label) ==
    IF isna(label)
    THEN \* re.match on a float
         Raise("TypeError", "expected string or bytes-like object")
    ELSE IF ~MatchesLegalPattern(Chars(label))
    THEN print_error("Sample/Group label contain illegal characters or does not start with letters",
                     "Label", <<label>>)
    ELSE IF FirstIllegal(Chars(label)) # 0
    THEN \* the context string is the pattern, given here by its place in the list
         print_error("Sample/Group label contain string reserved by pipeline or MultiQC. This may cause a problem.",
                     "Reserved string", <<FirstIllegal(Chars(label))>>)
    ELSE Ok

(***************************************************************************)
(* check_fastq_suffix, lines 43-48.                                        *)
(***************************************************************************)
FQ_EXTENSIONS == { <<".", "f", "q", ".", "g", "z">>,
                   <<".", "f", "a", "s", "t", "q", ".", "g", "z">> }

check_fastq_suffix(filename) ==
    IF isna(filename)
    THEN \* a float has no endswith
         Raise("AttributeError", "'float' object has no attribute 'endswith'")
    ELSE IF ~\E e \in FQ_EXTENSIONS : EndsWith(Chars(filename), e)
    THEN print_error("FASTQ path has invalid extension", "Path", <<filename>>)
    ELSE Ok

(***************************************************************************)
(* pandas helpers used by check_samplesheet.                               *)
(***************************************************************************)
Min(S) == CHOOSE m \in S : \A x \in S : m <= x

\* design[c]: the column as a Series (row position -> cell)
Series(d, c) == [i \in DOMAIN d |-> d[i][c]]

\* Series.map(f) / Series.map(f, na_action="ignore"): f is applied row by row,
\* so the first row on which f exits or raises ends the run.
FirstFailure(results) ==
    LET bad == {i \in DOMAIN results : results[i].kind # "ok"}
    IN  IF bad = {} THEN Ok ELSE results[Min(bad)]

map_match_legal_pattern(s) ==
    FirstFailure([i \in DOMAIN s |-> match_legal_pattern(s[i])])

map_match_legal_pattern_ignore(s) ==
    FirstFailure([i \in DOMAIN s |-> IF isna(s[i]) THEN Ok ELSE match_legal_pattern(s[i])])

map_check_fastq_suffix(s) ==
    FirstFailure([i \in DOMAIN s |-> check_fastq_suffix(s[i])])

map_check_fastq_suffix_ignore(s) ==
    FirstFailure([i \in DOMAIN s |-> IF isna(s[i]) THEN Ok ELSE check_fastq_suffix(s[i])])

\* Series.all() (skipna=True): every cell that is not missing is truthy; a
\* str is truthy unless empty.
all(s) == \A i \in DOMAIN s : isna(s[i]) \/ s[i] # ""

\* Series.duplicated(): the rows whose value occurred in an earlier row
duplicated(s) == {i \in DOMAIN s : \E h \in DOMAIN s : h < i /\ s[h] = s[i]}

\* Series.dropna(), as the sequence of the remaining cells
RECURSIVE dropna(_)
dropna(s) ==
    IF s = <<>> THEN <<>>
    ELSE IF isna(s[Len(s)]) THEN dropna(SubSeq(s, 1, Len(s) - 1))
    ELSE Append(dropna(SubSeq(s, 1, Len(s) - 1)), s[Len(s)])

\* Series.count(): the number of cells that are not missing
count(s) == Cardinality({i \in DOMAIN s : notnull(s[i])})

\* Series.unique(): the distinct values, NaN being one of them
unique(s) == {s[i] : i \in DOMAIN s}

\* nunique(dropna=False), a faulty variant of nunique: NaN counts as a value.
\* C7 fails under it.
nunique_counting_nan(s) == Cardinality({s[i] : i \in DOMAIN s})

\* Series.nunique(): the number of distinct values, NaN not counted
nunique(s) == Cardinality({s[i] : i \in DOMAIN s} \ {NaN})

\* The keys of design.groupby("sample"): the distinct samples (rows with a
\* missing key are dropped), in sorted order.
GroupKeys(d) == {d[i]["sample"] : i \in DOMAIN d} \ {NaN}

\* The row positions of one group
GroupRows(d, key) == {i \in DOMAIN d : d[i]["sample"] = key}

\* The cells of column c in one group
GroupSeries(d, key, c) == [i \in GroupRows(d, key) |-> d[i][c]]

\* A set of labels as the list in sorted order
SortedList(S) ==
    CHOOSE q \in [1..Cardinality(S) -> S] :
        \A i, j \in 1..Cardinality(S) : i < j => Rank(q[i]) < Rank(q[j])

\* s[mask].tolist(): the cells of the rows in mask, in row order
RECURSIVE Select(_, _, _)
Select(s, mask, n) ==
    IF n = 0 THEN <<>>
    ELSE IF n \in mask THEN Append(Select(s, mask, n - 1), s[n])
    ELSE Select(s, mask, n - 1)

(***************************************************************************)
(* The checks of check_samplesheet, lines 69-118, each as the outcome of   *)
(* its statement on the frame d with the columns cols.                     *)
(***************************************************************************)
HEADER == {"sample", "read_1", "read_2", "group"}

ColumnSet(cols) == {cols[i] : i \in DOMAIN cols}

\* line 71
check_columns(d, cols) ==
    IF HEADER \subseteq ColumnSet(cols) THEN Ok
    ELSE Raise("AssertionError", "Design file must contain {} columns")

\* line 74
check_sample_labels(d, cols) == map_match_legal_pattern(Series(d, "sample"))

\* line 77
check_group_presence(d, cols) ==
    IF \/ \A i \in DOMAIN d : isna(d[i]["group"])
       \/ \A i \in DOMAIN d : notnull(d[i]["group"])
    THEN Ok
    ELSE Raise("AssertionError", "Group labels missing in some samples but not others!")

\* line 80
check_group_labels(d, cols) == map_match_legal_pattern_ignore(Series(d, "group"))

\* line 83
check_read_1_present(d, cols) ==
    IF all(Series(d, "read_1")) THEN Ok
    ELSE Raise("AssertionError", "Read 1 path cannot be missing!")

\* line 86
check_read_1_suffix(d, cols) == map_check_fastq_suffix(Series(d, "read_1"))

\* line 87
check_read_2_suffix(d, cols) == map_check_fastq_suffix_ignore(Series(d, "read_2"))

\* A faulty variant of check_read_1_unique that reports through print_error
\* instead of the assert.  C3 as amended fails under it.
check_read_1_unique_printing(d, cols) ==
    IF duplicated(Series(d, "read_1")) = {} THEN Ok
    ELSE print_error("There are duplications within Read 1 paths!", "", <<>>)

\* line 90
check_read_1_unique(d, cols) ==
    IF duplicated(Series(d, "read_1")) = {} THEN Ok
    ELSE Raise("AssertionError", "There are duplications within Read 1 paths!")

\* line 91
check_read_2_unique(d, cols) ==
    IF duplicated(dropna(Series(d, "read_2"))) = {} THEN Ok
    ELSE Raise("AssertionError", "There are duplications within Read 2 paths!")

\* lines 94-97
check_group_consistent(d, cols) ==
    LET inconsistent == {k \in GroupKeys(d) :
                            Cardinality(unique(GroupSeries(d, k, "group"))) # 1}
    IN  IF inconsistent = {} THEN Ok
        ELSE print_error("Group labels for samples not consistent across different runs",
                         "Samples", SortedList(inconsistent))

\* line 52
check_all_se_or_all_pe(d, k) ==
    \/ count(GroupSeries(d, k, "read_2")) = 0
    \/ count(GroupSeries(d, k, "read_2")) = count(GroupSeries(d, k, "read_1"))

\* lines 100-103
check_se_or_pe(d, cols) ==
    LET bad_samples == {k \in GroupKeys(d) : ~check_all_se_or_all_pe(d, k)}
    IN  IF bad_samples = {} THEN Ok
        ELSE print_error("Single-end and paired-end data cannot be mixed for the same sample",
                         "Samples", SortedList(bad_samples))

\* line 106: design["sample"].duplicated().any()
sample_duplicated(d) == duplicated(Series(d, "sample")) # {}

\* lines 107-109, inside the if of line 106
check_run_accession_column(d, cols) ==
    IF "run_accession" \in ColumnSet(cols) THEN Ok
    ELSE print_error("run_accesssion column must exist when there are duplicated sample labels",
                     "Samples",
                     Select(Series(d, "sample"), duplicated(Series(d, "sample")), Len(d)))

\* line 112, inside the if of line 106
check_run_accession_labels(d, cols) ==
    map_match_legal_pattern_ignore(Series(d, "run_accession"))

\* lines 115-118, inside the if of line 106: the rows of accession_counts are
\* visited in the sorted order of the samples, the first failing one exits.
check_run_accession_unique(d, cols) ==
    LET failing == {k \in GroupKeys(d) :
                      /\ Cardinality(GroupRows(d, k)) > 1
                      /\ Cardinality(GroupRows(d, k)) # nunique(GroupSeries(d, k, "run_accession"))}
    IN  IF failing = {} THEN Ok
        ELSE print_error("run_accession missing or not unique for the same sample",
                         "Sample", <<SortedList(failing)[1]>>)

(***************************************************************************)
(* Output preparation, lines 120-147.                                      *)
(***************************************************************************)
\* design[c] = value for a column c: appended when new, overwritten in place
\* when the frame has it already.
AddColumn(cols, c) == IF c \in ColumnSet(cols) THEN cols ELSE Append(cols, c)

\* lines 123-124 and 128-129: a column is added only when absent
AddIfAbsent(d, cols, c, value) ==
    [i \in DOMAIN d |->
        [k \in ColumnSet(cols) \cup {c} |->
            IF k \in ColumnSet(cols) THEN d[i][k] ELSE value]]

\* A faulty variant of single_end: notna() for isna().  C10 fails under it.
single_end_inverted(row) == notnull(row["read_2"])

\* line 132: design["single_end"] = design["read_2"].isna()
single_end(row) == isna(row["read_2"])

\* lines 132 and 136: the column is set on every row
SetColumns(d, cols) ==
    [i \in DOMAIN d |->
        [k \in ColumnSet(cols) \cup {"single_end", "fasta"} |->
            IF k = "single_end" THEN single_end(d[i])
            ELSE IF k = "fasta" THEN ""
            ELSE d[i][k]]]

\* line 139: rename(columns={"read_1":"fastq_1", "read_2":"fastq_2"})
RenameColumn(c) ==
    IF c = "read_1" THEN "fastq_1" ELSE IF c = "read_2" THEN "fastq_2" ELSE c

OldColumn(c) ==
    IF c = "fastq_1" THEN "read_1" ELSE IF c = "fastq_2" THEN "read_2" ELSE c

Rename(d, cols) ==
    [i \in DOMAIN d |->
        [k \in {RenameColumn(c) : c \in ColumnSet(cols)} |-> d[i][OldColumn(k)]]]

\* The column names after lines 123-139, in order
PreparedColumns(cols) ==
    LET c1 == AddColumn(cols, "run_accession")
        c2 == AddColumn(c1, "instrument_platform")
        c3 == AddColumn(c2, "single_end")
        c4 == AddColumn(c3, "fasta")
    IN  [i \in DOMAIN c4 |-> RenameColumn(c4[i])]

\* The rows after lines 123-139
PreparedRows(d, cols) ==
    LET c1 == AddColumn(cols, "run_accession")
        d1 == AddIfAbsent(d, cols, "run_accession", "")
        c2 == AddColumn(c1, "instrument_platform")
        d2 == AddIfAbsent(d1, c1, "instrument_platform", "ILLUMINA")
    IN  Rename(SetColumns(d2, c2), AddColumn(AddColumn(c2, "single_end"), "fasta"))

\* lines 142-143: metadata = design[["sample", "group"]], renamed
Metadata(d) ==
    [i \in DOMAIN d |-> [sampleid |-> d[i]["sample"], group |-> d[i]["group"]]]

\* A faulty variant of DropColumn: the column name is kept.  C5 as amended
\* fails under it.
KeepColumn(cols, c) == cols

\* line 147: design.drop("group", axis=1)
RECURSIVE DropColumn(_, _)
DropColumn(cols, c) ==
    IF cols = <<>> THEN <<>>
    ELSE IF cols[Len(cols)] = c THEN DropColumn(SubSeq(cols, 1, Len(cols) - 1), c)
    ELSE Append(DropColumn(SubSeq(cols, 1, Len(cols) - 1), c), cols[Len(cols)])

DropRows(d, cols, c) ==
    [i \in DOMAIN d |-> [k \in ColumnSet(cols) \ {c} |-> d[i][k]]]

(***************************************************************************)
(* The state of a run.                                                     *)
(***************************************************************************)
\* exitCode while the process has not exited
Running == 0 - 1

NoException == [exc |-> "", msg |-> ""]

NoFile == [columns |-> <<>>, rows |-> <<>>, written |-> FALSE]

File(cols, rows) == [columns |-> cols, rows |-> rows, written |-> TRUE]

(***************************************************************************)
(* The samplesheets a run may be given: every sheet of 1..MaxRows rows     *)
(* under one of the headers below, each cell drawn from its column's       *)
(* values.  Init is the state after pd.read_csv (line 67).                 *)
(***************************************************************************)
Samples == {"s1", "s2", "1abc"}

Read1s == {"a.fq.gz", "b.fastq.gz", "a.txt", NaN}

Read2s == {"a.fq.gz", "b.fastq.gz", "a.txt", NaN}

Groups == {"g1", "g2", "ccs", NaN}

RunAccessions == {"r1", "r2", "1abc", NaN}

Headers == { <<"sample", "read_1", "read_2", "group">>,
             <<"sample", "read_1", "read_2", "group", "run_accession">>,
             <<"sample", "read_1", "read_2", "group", "instrument_platform", "library">>,
             <<"sample", "read_1", "read_2">> }

\* The rows a sheet with the columns cols may hold
RowsOf(cols) ==
    { [c \in ColumnSet(cols) |-> r[c]] :
        r \in [sample : Samples, read_1 : Read1s, read_2 : Read2s, group : Groups,
               run_accession : RunAccessions, instrument_platform : {"OXFORD_NANOPORE"},
               library : {"lib1"}] }

\* The state of a run that has read the sheet with the columns cols and the rows
Start(cols, rows) ==
    /\ columns = cols
    /\ design = rows
    /\ file_in = [columns |-> cols, rows |-> rows]
    /\ pc = "check_columns"
    /\ stdout = <<>>
    /\ stderr = NoException
    /\ exitCode = Running
    /\ exitedAt = ""
    /\ metadata = <<>>
    /\ files = [group_metadata |-> NoFile, file_out |-> NoFile]

SheetInit ==
    \E cols \in Headers, n \in 1..MaxRows :
        \E rows \in [1..n -> RowsOf(cols)] : Start(cols, rows)

(***************************************************************************)
(* The sheets of the label study: the labels are drawn from the shapes     *)
(* match_legal_pattern tells apart (a missing cell, an illegal character,  *)
(* each reserved suffix, a reserved prefix), the read paths are valid and  *)
(* differ from row to row.                                                 *)
(***************************************************************************)
Labels == {"s1", "1abc", "a b", "ccs", "Aligned", "short_summary_",
           "foo_R1", "foo_R2", "foo_", "foo_val", "foo_mqc", "foo_trimmed",
           "foo_summary", "foo_matrix", "foo_R1x", NaN}

LabelHeaders == { <<"sample", "read_1", "read_2", "group">>,
                  <<"sample", "read_1", "read_2", "group", "run_accession">> }

LabelPaths == <<"a.fq.gz", "b.fastq.gz", "c.fq.gz", "d.fastq.gz">>

LabelRowsOf(cols, i) ==
    { [c \in ColumnSet(cols) |-> r[c]] :
        r \in [sample : Labels, read_1 : {LabelPaths[i]}, read_2 : {NaN},
               group : {"g1", "foo_R2", NaN}, run_accession : {"r1", "foo_val"}] }

RECURSIVE LabelSheets(_, _)
LabelSheets(cols, n) ==
    IF n = 0 THEN {<<>>}
    ELSE {Append(t, r) : t \in LabelSheets(cols, n - 1), r \in LabelRowsOf(cols, n)}

LabelInit ==
    \E cols \in LabelHeaders, n \in 1..MaxRows :
        \E rows \in LabelSheets(cols, n) : Start(cols, rows)

(***************************************************************************)
(* Control flow of check_samplesheet.                                      *)
(***************************************************************************)
\* The process ends with outcome r at the current statement: print_error
\* prints and calls sys.exit(1); an uncaught exception ends the interpreter
\* with a traceback on stderr and exit code 1.
Terminate(r) ==
    /\ pc' = "exit"
    /\ exitedAt' = pc
    /\ exitCode' = 1
    /\ stdout' = IF r.kind = "print_error"
                 THEN << [prefix |-> "ERROR: Please check samplesheet -> ", error |-> r.error],
                         [context |-> r.context, context_str |-> r.context_str] >>
                 ELSE stdout
    /\ stderr' = IF r.kind = "raise" THEN [exc |-> r.exc, msg |-> r.msg] ELSE stderr
    /\ UNCHANGED <<file_in, columns, design, metadata, files>>

\* The statement passed: control moves to the statement next
Continue(next) ==
    /\ pc' = next
    /\ UNCHANGED <<file_in, columns, design, stdout, stderr, exitCode, exitedAt, metadata, files>>

\* A faulty variant of Step: print_error prints and returns (no sys.exit), so
\* the run goes on after a reported failure.  C2 fails under it.
StepWithoutExit(r, next) ==
    IF r.kind = "raise" THEN Terminate(r)
    ELSE /\ pc' = next
         /\ stdout' = IF r.kind = "print_error"
                      THEN << [prefix |-> "ERROR: Please check samplesheet -> ", error |-> r.error],
                              [context |-> r.context, context_str |-> r.context_str] >>
                      ELSE stdout
         /\ UNCHANGED <<file_in, columns, design, stderr, exitCode, exitedAt, metadata, files>>

Step(r, next) == IF r.kind = "ok" THEN Continue(next) ELSE Terminate(r)

CheckColumns ==
    /\ pc = "check_columns"
    /\ Step(check_columns(design, columns), "check_sample_labels")

CheckSampleLabels ==
    /\ pc = "check_sample_labels"
    /\ Step(check_sample_labels(design, columns), "check_group_presence")

CheckGroupPresence ==
    /\ pc = "check_group_presence"
    /\ Step(check_group_presence(design, columns), "check_group_labels")

CheckGroupLabels ==
    /\ pc = "check_group_labels"
    /\ Step(check_group_labels(design, columns), "check_read_1_present")

CheckRead1Present ==
    /\ pc = "check_read_1_present"
    /\ Step(check_read_1_present(design, columns), "check_read_1_suffix")

CheckRead1Suffix ==
    /\ pc = "check_read_1_suffix"
    /\ Step(check_read_1_suffix(design, columns), "check_read_2_suffix")

CheckRead2Suffix ==
    /\ pc = "check_read_2_suffix"
    /\ Step(check_read_2_suffix(design, columns), "check_read_1_unique")

CheckRead1Unique ==
    /\ pc = "check_read_1_unique"
    /\ Step(check_read_1_unique(design, columns), "check_read_2_unique")

CheckRead2Unique ==
    /\ pc = "check_read_2_unique"
    /\ Step(check_read_2_unique(design, columns), "check_group_consistent")

CheckGroupConsistent ==
    /\ pc = "check_group_consistent"
    /\ Step(check_group_consistent(design, columns), "check_se_or_pe")

CheckSeOrPe ==
    /\ pc = "check_se_or_pe"
    /\ Step(check_se_or_pe(design, columns), "if_sample_duplicated")

\* line 106: the three statements of its body run only for a sheet with a
\* duplicated sample
IfSampleDuplicated ==
    /\ pc = "if_sample_duplicated"
    /\ Continue(IF sample_duplicated(design) THEN "check_run_accession_column"
                ELSE "prepare_output")

CheckRunAccessionColumn ==
    /\ pc = "check_run_accession_column"
    /\ Step(check_run_accession_column(design, columns), "check_run_accession_labels")

CheckRunAccessionLabels ==
    /\ pc = "check_run_accession_labels"
    /\ Step(check_run_accession_labels(design, columns), "check_run_accession_unique")

CheckRunAccessionUnique ==
    /\ pc = "check_run_accession_unique"
    /\ Step(check_run_accession_unique(design, columns), "prepare_output")

\* lines 123-143
PrepareOutput ==
    /\ pc = "prepare_output"
    /\ design' = PreparedRows(design, columns)
    /\ columns' = PreparedColumns(columns)
    /\ metadata' = Metadata(design)
    /\ pc' = "write_metadata"
    /\ UNCHANGED <<file_in, stdout, stderr, exitCode, exitedAt, files>>

\* A faulty variant of WriteMetadata: a failed write is swallowed and the run
\* goes on to the main output.  C9 as amended fails under it.
WriteMetadataSwallowingFailure ==
    /\ pc = "write_metadata"
    /\ \E writable \in BOOLEAN :
          /\ files' = IF writable
                      THEN [files EXCEPT !.group_metadata =
                                File(<<"sampleid", "group">>, metadata)]
                      ELSE files
          /\ pc' = "write_output"
          /\ UNCHANGED <<file_in, columns, design, stdout, stderr, exitCode,
                         exitedAt, metadata>>

\* line 144: metadata.to_csv("group_metadata.csv", ...); the write raises
\* OSError when the file cannot be created in the working directory
WriteMetadata ==
    /\ pc = "write_metadata"
    /\ \E writable \in BOOLEAN :
          IF writable
          THEN /\ files' = [files EXCEPT !.group_metadata =
                                File(<<"sampleid", "group">>, metadata)]
               /\ pc' = "write_output"
               /\ UNCHANGED <<file_in, columns, design, stdout, stderr, exitCode,
                              exitedAt, metadata>>
          ELSE Terminate(Raise("OSError", "group_metadata.csv"))

\* lines 147-150: drop the group column, then design.to_csv(file_out, ...);
\* the write raises OSError when file_out cannot be created
WriteOutput ==
    /\ pc = "write_output"
    /\ \E writable \in BOOLEAN :
          IF writable
          THEN /\ design' = DropRows(design, columns, "group")
               /\ columns' = DropColumn(columns, "group")
               /\ files' = [files EXCEPT !.file_out = File(columns', design')]
               /\ pc' = "return"
               /\ UNCHANGED <<file_in, stdout, stderr, exitCode, exitedAt, metadata>>
          ELSE /\ design' = DropRows(design, columns, "group")
               /\ columns' = DropColumn(columns, "group")
               /\ pc' = "exit"
               /\ exitedAt' = pc
               /\ exitCode' = 1
               /\ stderr' = [exc |-> "OSError", msg |-> "file_out"]
               /\ UNCHANGED <<file_in, stdout, metadata, files>>

\* lines 154-157: check_samplesheet returns None, sys.exit(None) is exit code 0
Return ==
    /\ pc = "return"
    /\ pc' = "exit"
    /\ exitedAt' = pc
    /\ exitCode' = 0
    /\ UNCHANGED <<file_in, columns, design, stdout, stderr, metadata, files>>

Next ==
    \/ CheckColumns
    \/ CheckSampleLabels
    \/ CheckGroupPresence
    \/ CheckGroupLabels
    \/ CheckRead1Present
    \/ CheckRead1Suffix
    \/ CheckRead2Suffix
    \/ CheckRead1Unique
    \/ CheckRead2Unique
    \/ CheckGroupConsistent
    \/ CheckSeOrPe
    \/ IfSampleDuplicated
    \/ CheckRunAccessionColumn
    \/ CheckRunAccessionLabels
    \/ CheckRunAccessionUnique
    \/ PrepareOutput
    \/ WriteMetadata
    \/ WriteOutput
    \/ Return

\* A run on any sheet of either family
Init == SheetInit \/ LabelInit

Spec == Init /\ [][Next]_vars

\* A run on a sheet of the label study alone
LabelSpec == LabelInit /\ [][Next]_vars

(***************************************************************************)
(* Vocabulary of the properties.                                           *)
(***************************************************************************)
\* The number the specification gives the check made at a statement (0: the
\* statement is not one of the fourteen checks)
CheckNo(stmt) ==
    CASE stmt = "check_columns"              -> 1
      [] stmt = "check_sample_labels"        -> 2
      [] stmt = "check_group_presence"       -> 3
      [] stmt = "check_group_labels"         -> 4
      [] stmt = "check_read_1_present"       -> 5
      [] stmt = "check_read_1_suffix"        -> 6
      [] stmt = "check_read_2_suffix"        -> 7
      [] stmt = "check_read_1_unique"        -> 8
      [] stmt = "check_read_2_unique"        -> 9
      [] stmt = "check_group_consistent"     -> 10
      [] stmt = "check_se_or_pe"             -> 11
      [] stmt = "check_run_accession_column" -> 12
      [] stmt = "check_run_accession_labels" -> 13
      [] stmt = "check_run_accession_unique" -> 14
      [] OTHER                               -> 0

Exited == pc = "exit"

\* The run was stopped by one of the fourteen checks
StoppedByCheck == Exited /\ CheckNo(exitedAt) # 0

\* The run passed every check it made (it may still fail to write)
Validated == pc \in {"prepare_output", "write_metadata", "write_output", "return"}
             \/ (Exited /\ CheckNo(exitedAt) = 0)

\* print_error's first line is on standard output
PrintedError ==
    /\ stdout # <<>>
    /\ stdout[1].prefix = "ERROR: Please check samplesheet -> "

MetadataWritten == files.group_metadata.written

OutputWritten == files.file_out.written

InRows == file_in.rows

InColumns == ColumnSet(file_in.columns)

\* A search for the pattern anywhere in the label, as the data model's
\* "reserved substrings/suffixes" reads the list: the literal may start at any
\* offset, ^ pins it to the start and $ to the end.
re_search(p, cs) ==
    \E k \in 0..(Len(cs) - Len(p.lit)) :
        /\ \A i \in 1..Len(p.lit) : cs[k + i] = p.lit[i]
        /\ p.caret => k = 0
        /\ p.dollar => k + Len(p.lit) = Len(cs)

\* A label as the data model wants it: the naming pattern, and no reserved
\* string found in it (a reserved suffix at its end)
LegalLabel(label) ==
    /\ notnull(label)
    /\ MatchesLegalPattern(Chars(label))
    /\ \A j \in DOMAIN illegal_patterns : ~re_search(illegal_patterns[j], Chars(label))

ValidSuffix(path) ==
    \/ EndsWith(Chars(path), <<".", "f", "q", ".", "g", "z">>)
    \/ EndsWith(Chars(path), <<".", "f", "a", "s", "t", "q", ".", "g", "z">>)

\* The rows of the input that share their sample with another row
SharesSample(i) == \E j \in DOMAIN InRows : j # i /\ InRows[j]["sample"] = InRows[i]["sample"]

HasDuplicatedSample == \E i \in DOMAIN InRows : SharesSample(i)

\* Whether the input violates check k of the Validator, as the checks are
\* stated (k in 2..14 is asked only of a sheet with the four required columns)
Violates(k) ==
    CASE k = 1  -> ~({"sample", "read_1", "read_2", "group"} \subseteq InColumns)
      [] k = 2  -> \E i \in DOMAIN InRows : ~LegalLabel(InRows[i]["sample"])
      [] k = 3  -> /\ \E i \in DOMAIN InRows : isna(InRows[i]["group"])
                   /\ \E i \in DOMAIN InRows : notnull(InRows[i]["group"])
      [] k = 4  -> \E i \in DOMAIN InRows :
                      notnull(InRows[i]["group"]) /\ ~LegalLabel(InRows[i]["group"])
      [] k = 5  -> \E i \in DOMAIN InRows : isna(InRows[i]["read_1"])
      [] k = 6  -> \E i \in DOMAIN InRows :
                      notnull(InRows[i]["read_1"]) /\ ~ValidSuffix(InRows[i]["read_1"])
      [] k = 7  -> \E i \in DOMAIN InRows :
                      notnull(InRows[i]["read_2"]) /\ ~ValidSuffix(InRows[i]["read_2"])
      [] k = 8  -> \E i, j \in DOMAIN InRows :
                      i # j /\ InRows[i]["read_1"] = InRows[j]["read_1"]
      [] k = 9  -> \E i, j \in DOMAIN InRows :
                      /\ i # j
                      /\ notnull(InRows[i]["read_2"])
                      /\ InRows[i]["read_2"] = InRows[j]["read_2"]
      [] k = 10 -> \E i, j \in DOMAIN InRows :
                      /\ InRows[i]["sample"] = InRows[j]["sample"]
                      /\ InRows[i]["group"] # InRows[j]["group"]
      [] k = 11 -> \E i, j \in DOMAIN InRows :
                      /\ InRows[i]["sample"] = InRows[j]["sample"]
                      /\ isna(InRows[i]["read_2"])
                      /\ notnull(InRows[j]["read_2"])
      [] k = 12 -> HasDuplicatedSample /\ "run_accession" \notin InColumns
      [] k = 13 -> /\ "run_accession" \in InColumns
                   /\ \E i \in DOMAIN InRows :
                         /\ notnull(InRows[i]["run_accession"])
                         /\ ~LegalLabel(InRows[i]["run_accession"])
      [] k = 14 -> /\ "run_accession" \in InColumns
                   /\ \E i \in DOMAIN InRows :
                         /\ SharesSample(i)
                         /\ \/ isna(InRows[i]["run_accession"])
                            \/ \E j \in DOMAIN InRows :
                                  /\ j # i
                                  /\ InRows[j]["sample"] = InRows[i]["sample"]
                                  /\ InRows[j]["run_accession"] = InRows[i]["run_accession"]

ViolatedChecks == IF Violates(1) THEN {1} ELSE {k \in 2..14 : Violates(k)}

(***************************************************************************)
(* C1.  Fail-fast ordering: a run on a sheet that violates some check ends *)
(* reporting the lowest-numbered check the sheet violates.                 *)
(***************************************************************************)
C1_FailFastOrder ==
    (Exited /\ ViolatedChecks # {}) =>
        /\ exitCode = 1
        /\ CheckNo(exitedAt) = Min(ViolatedChecks)

(***************************************************************************)
(* C6.  read_1 presence: a run on a sheet with a missing read_1 that is    *)
(* not stopped by checks 1..4 is stopped by check 5, the "Read 1 path      *)
(* cannot be missing!" assertion.                                          *)
(***************************************************************************)
C6_MissingRead1StopsAtCheck5 ==
    (/\ Exited
     /\ ~Violates(1)
     /\ Violates(5)
     /\ CheckNo(exitedAt) \notin 1..4) =>
        /\ exitedAt = "check_read_1_present"
        /\ stderr = [exc |-> "AssertionError", msg |-> "Read 1 path cannot be missing!"]

(***************************************************************************)
(* C8.  run_accession legality whenever the column exists: a run on a      *)
(* sheet with a run_accession column holding an illegal label that is not  *)
(* stopped by checks 1..12 is stopped by check 13, duplicated sample or    *)
(* not.                                                                    *)
(***************************************************************************)
C8_IllegalRunAccessionStopsAtCheck13 ==
    (/\ Exited
     /\ ~Violates(1)
     /\ Violates(13)
     /\ CheckNo(exitedAt) \notin 1..12) =>
        exitedAt = "check_run_accession_labels"

(***************************************************************************)
(* C4.  Reserved-suffix rejection: a sheet holding a sample, group or      *)
(* run_accession label that matches the naming pattern and ends with a     *)
(* reserved suffix does not pass validation.                               *)
(***************************************************************************)
ReservedSuffixes == { <<"_", "t", "r", "i", "m", "m", "e", "d">>, <<"_", "v", "a", "l">>,
                      <<"_", "m", "q", "c">>, <<"_", "s", "u", "m", "m", "a", "r", "y">>,
                      <<"_", "m", "a", "t", "r", "i", "x">>, <<"_">>,
                      <<"_", "R", "1">>, <<"_", "R", "2">> }

HasReservedSuffix(label) ==
    /\ notnull(label)
    /\ MatchesLegalPattern(Chars(label))
    /\ \E x \in ReservedSuffixes : EndsWith(Chars(label), x)

LabelColumns == {"sample", "group", "run_accession"} \cap InColumns

C4_ReservedSuffixRejected ==
    Validated =>
        \A i \in DOMAIN InRows : \A c \in LabelColumns : ~HasReservedSuffix(InRows[i][c])

(***************************************************************************)
(* C2.  No output on validation failure: once a check has reported a       *)
(* failure (print_error's message, or an exception raised by a check) the  *)
(* process has exited with code 1 and neither group_metadata.csv nor the   *)
(* main output file is written; a file is written only by a run that       *)
(* passed every check and reported nothing.                                *)
(***************************************************************************)
C2_NoOutputOnValidationFailure ==
    /\ (stdout # <<>> \/ StoppedByCheck) =>
          /\ Exited
          /\ exitCode = 1
          /\ CheckNo(exitedAt) # 0
          /\ ~MetadataWritten
          /\ ~OutputWritten
    /\ (MetadataWritten \/ OutputWritten) =>
          /\ Validated
          /\ stdout = <<>>

\* The last check stops a run, and nothing is written
C2_Witness ==
    /\ Exited
    /\ exitedAt = "check_run_accession_unique"
    /\ PrintedError
    /\ ~MetadataWritten
    /\ ~OutputWritten

WellFormed ==
    /\ ~Violates(1)
    /\ \A k \in 2..12 : ~Violates(k)
    /\ HasDuplicatedSample =>
          /\ "run_accession" \in InColumns
          /\ \A i \in DOMAIN InRows :
                SharesSample(i) => LegalLabel(InRows[i]["run_accession"])
          /\ ~Violates(14)

PipelineColumns == {"sample", "fastq_1", "fastq_2", "run_accession",
                    "instrument_platform", "single_end", "fasta"}

\* The main table is final: group is dropped (line 147)
MainTableReady == pc = "return" \/ (Exited /\ exitedAt \in {"write_output", "return"})

RunAccessionOwn(i) ==
    /\ notnull(InRows[i]["run_accession"])
    /\ \A j \in DOMAIN InRows :
          (j # i /\ InRows[j]["sample"] = InRows[i]["sample"]) =>
              InRows[j]["run_accession"] # InRows[i]["run_accession"]

C7_RunAccessionUniquePerSample ==
    (/\ Exited
     /\ ~Violates(1)
     /\ HasDuplicatedSample
     /\ CheckNo(exitedAt) \notin 1..13) =>
        /\ "run_accession" \in InColumns
        /\ Validated <=> \A i \in DOMAIN InRows : SharesSample(i) => RunAccessionOwn(i)
        /\ ~Validated =>
              /\ exitedAt = "check_run_accession_unique"
              /\ PrintedError
              /\ stdout[2].context = "Sample"
              /\ Len(stdout[2].context_str) = 1
              /\ \E i \in DOMAIN InRows :
                    /\ InRows[i]["sample"] = stdout[2].context_str[1]
                    /\ SharesSample(i)
                    /\ ~RunAccessionOwn(i)

\* A two-row sample with one missing run_accession is rejected by check 14
C7_Witness ==
    /\ Exited
    /\ exitedAt = "check_run_accession_unique"
    /\ Len(InRows) = 2
    /\ InRows[1]["sample"] = InRows[2]["sample"]
    /\ InRows[1]["run_accession"] = "r1"
    /\ isna(InRows[2]["run_accession"])
    /\ stdout[2].context_str = <<InRows[1]["sample"]>>

(***************************************************************************)
(* C9 as stated.  No partial output: a terminated run has written both     *)
(* group_metadata.csv and the main output file, or neither.                *)
(***************************************************************************)
C9_BothOrNeither == Exited => (MetadataWritten <=> OutputWritten)

(***************************************************************************)
(* C9 as amended: a terminated run has written both files, or neither, or  *)
(* group_metadata.csv alone, the last exactly when the write of the main   *)
(* output file failed (line 150, after group_metadata.csv was written at   *)
(* line 144); the main output file is never there without                  *)
(* group_metadata.csv, and a run that exits with code 0 has written both.  *)
(***************************************************************************)
C9_MetadataAloneOnlyWhenOutputFails ==
    /\ OutputWritten => MetadataWritten
    /\ Exited =>
          /\ (MetadataWritten /\ ~OutputWritten) <=>
                (exitedAt = "write_output" /\ stderr.exc = "OSError" /\ exitCode = 1)
          /\ exitCode = 0 <=> (MetadataWritten /\ OutputWritten)

\* The run that leaves group_metadata.csv alone
C9_Witness ==
    /\ Exited
    /\ MetadataWritten
    /\ ~OutputWritten
    /\ exitCode = 1

(***************************************************************************)
(* C10.  Row-aligned transform: for a sheet that passed validation, the    *)
(* main table and the metadata table have one row per input row in input   *)
(* order; main row i carries the sample of input row i and single_end =    *)
(* TRUE exactly when read_2 of input row i is missing; metadata row i is   *)
(* (sampleid, group) of input row i.  The files hold these tables.         *)
(***************************************************************************)
MainRowsAligned(rows) ==
    /\ Len(rows) = Len(InRows)
    /\ \A i \in DOMAIN InRows :
          /\ rows[i]["sample"] = InRows[i]["sample"]
          /\ rows[i]["single_end"] = (InRows[i]["read_2"] = NaN)

MetadataRowsAligned(rows) ==
    /\ Len(rows) = Len(InRows)
    /\ \A i \in DOMAIN InRows :
          rows[i] = [sampleid |-> InRows[i]["sample"], group |-> InRows[i]["group"]]

C10_RowAlignedTransform ==
    /\ (pc \in {"write_metadata", "write_output", "return"}
        \/ (Exited /\ CheckNo(exitedAt) = 0)) =>
          /\ MainRowsAligned(design)
          /\ MetadataRowsAligned(metadata)
    /\ MetadataWritten =>
          /\ MetadataRowsAligned(files.group_metadata.rows)
          /\ files.group_metadata.columns = <<"sampleid", "group">>
    /\ OutputWritten => MainRowsAligned(files.file_out.rows)

\* The end-to-end example: a paired-end s1 and a single-end s2, both of g1
C10_Witness ==
    /\ pc = "return"
    /\ OutputWritten
    /\ MetadataWritten
    /\ Len(InRows) = 2
    /\ notnull(InRows[1]["read_2"])
    /\ isna(InRows[2]["read_2"])
    /\ files.file_out.rows[1]["single_end"] = FALSE
    /\ files.file_out.rows[2]["single_end"] = TRUE
    /\ files.group_metadata.rows =
          << [sampleid |-> "s1", group |-> "g1"], [sampleid |-> "s2", group |-> "g1"] >>

====
